---- MODULE Spec2Model ----
(***************************************************************************)
(* Model of SqsEmitter.publishEvents (lib/sqs-emitter.js, current          *)
(* revision starting at line 692) together with its collaborators:         *)
(* ParameterStore (memoized RAM + SSM resolution of the bucket list),      *)
(* S3Uploader.uploadContentS3Path (ordered bucket fallback) and the        *)
(* AsyncWithConcurrency dispatcher.                                        *)
(*                                                                         *)
(* Strings are modelled by their serialized lengths: an event is a record  *)
(* of the lengths JSON.stringify gives to its parts.                       *)
(*   base  : the entry without MessageBody and extraProperties             *)
(*           (Id, MessageAttributes, Subject, ...)                         *)
(*   body  : MessageBody = JSON.stringify(content)                         *)
(*   extra : the extraProperties member                                    *)
(*   stub  : JSON.stringify(formatBodyWithContentS3Path(...)) without      *)
(*           bucket data: the path plus the picked fixed properties        *)
(* Next to the lengths an event carries what the bodies are made of:       *)
(*   content                : the content object, a record of its members, *)
(*                            each value one of Values;                    *)
(*                            Undefined when the event has no content      *)
(*   payloadFixedProperties : the keys to keep inline, <<>> when absent    *)
(*   rid                    : the value randomId gives when the event is   *)
(*                            formatted, the last segment of its path      *)
(*   attributes             : the attributes object, a record of its       *)
(*                            members; Undefined when absent               *)
(***************************************************************************)
EXTENDS Integers, Sequences, FiniteSets, TLC

VARIABLES
    calls,         \* number of publishEvents / publishEvent calls of the process
    lastError,     \* error code the previous call rejected with, if it did
    sqsUrl,        \* the queue URL argument of the call
    session,       \* this.session of the emitter
    events,        \* the events argument of publishEvents
    pc,            \* position of the publishEvents call
    parsedEvents,  \* result of parseEvents: sequence of batches
    queue,         \* AsyncWithConcurrency: batches not yet started
    activeCount,   \* AsyncWithConcurrency: pipelines started and not settled
    results,       \* AsyncWithConcurrency: batch results, completion order
    pcB,           \* position of each batch pipeline
    up,            \* per message Id: state of formatAndUploadEventWithS3Content
    sent,          \* per batch: Entries of its SendMessageBatchCommand
    arnCache,      \* memoize cache of getParameterArnFromRAM
    valueCache,    \* memoize cache of getParameterValue
    bucketList,    \* the value held by valueCache once resolved
    ramCalls,      \* number of ListResourcesCommand sent during the call
    ssmCalls,      \* number of GetParameterCommand sent during the call
    s3Puts,        \* per message Id: the PutObjectCommand sent, in order
    rejectReason,  \* error code publishEvents rejected with
    summary        \* value publishEvents resolved with

vars == <<calls, lastError, sqsUrl, session, events, pc, parsedEvents, queue, activeCount, results,
          pcB, up, sent, arnCache, valueCache, bucketList, ramCalls,
          ssmCalls, s3Puts, rejectReason, summary>>

-----------------------------------------------------------------------------
(* Program constants                                                       *)

MAX_CONCURRENCY == 25

SQS_MESSAGE_LIMIT_SIZE == 256 * 1024

SQS_MAX_BATCH_SIZE == 10

estimatedBucketInfoSize == 90

-----------------------------------------------------------------------------
(* Bounds of the model                                                     *)

MaxEvents == 3

MaxEdge == 2

MaxRun == 11

MaxTasks == 27

MaxCalls == 2

MaxCallEvents == 2

MaxSessionEvents == 2

-----------------------------------------------------------------------------
(* Inputs                                                                  *)

\* the JavaScript value undefined, for a content or a MessageBody
Undefined == [undefined |-> TRUE]

\* a member value of a content: a JavaScript value, named
V(name) == [v |-> name]

\* a member value shaped like the contentS3Location of a message received
\* from another queue
ForeignLocation ==
    [path |-> <<"elsewhere">>, bucketName |-> "other-bucket", region |-> "eu-west-1"]

\* member values: a string, a long string, 0, null, false, an undefined
\* member, and an object
Values ==
    {V("bar"), V("huge"), V("zero"), V("null"), V("false"), V("undefined"),
     ForeignLocation}

\* the values JavaScript takes as false in a condition
Falsy == {V("zero"), V("null"), V("false"), V("undefined")}

Ev(base, body, extra, stub) ==
    [base |-> base, body |-> body, extra |-> extra, stub |-> stub,
     content |-> [bar |-> V("bar"), foo |-> V("huge")],
     payloadFixedProperties |-> <<>>,
     rid |-> "r0",
     attributes |-> Undefined]

\* a small event: 200 characters once formatted
EvSmall == [Ev(60, 40, 100, 120) EXCEPT !.content = [bar |-> V("bar")]]

\* half the limit: two of them fill a batch exactly
EvHalf == Ev(60, 130912, 100, 120)

\* exactly the limit: not over it
EvLimit == Ev(60, 261984, 100, 120)

\* one character over the limit: offloaded, small pointer body
EvOver ==
    [Ev(60, 261985, 100, 120) EXCEPT
        !.content = [bar |-> V("bar"), foo |-> V("huge"), n |-> V("zero"),
                     f |-> V("false"), u |-> V("undefined")],
        !.payloadFixedProperties = <<"bar", "n", "f", "u", "missing">>,
        !.rid = "r1"]

\* over the limit because of large attributes and a sizeable content; the
\* content forwards the contentS3Location of a received message and keeps
\* it inline
EvOverAttr ==
    [Ev(200000, 100000, 100, 120) EXCEPT
        !.content = [contentS3Location |-> ForeignLocation, foo |-> V("huge")],
        !.payloadFixedProperties = <<"contentS3Location">>,
        !.rid = "r2"]

\* over the limit with a fixed property so large that the pointer body
\* plus the reserved 90 is itself over the limit
EvOverPicked ==
    [Ev(60, 300000, 100, 262055) EXCEPT
        !.content = [bar |-> V("bar"), foo |-> V("huge")],
        !.payloadFixedProperties = <<"foo">>,
        !.rid = "r3"]

\* an event without content: JSON.stringify(undefined) is undefined and
\* the MessageBody member is left out of the serialized entry
EvNoContent ==
    [Ev(60, 0, 100, 120) EXCEPT !.content = Undefined, !.rid = "r4"]

\* a small event with attributes of its own: a string, a boolean and an
\* array
EvTagged ==
    [EvSmall EXCEPT
        !.attributes = [foo |-> V("bar"), bar |-> [bool |-> TRUE],
                        mobile |-> [array |-> <<"foo", "bar">>]],
        !.rid = "r5"]

\* a small event whose attributes name the queue themselves
EvOwnName ==
    [EvSmall EXCEPT !.attributes = [sqsName |-> V("OtherQueue")], !.rid = "r6"]

MainPalette == {EvSmall, EvLimit, EvOver, EvOverAttr, EvNoContent}

SessionPalette == {EvSmall, EvTagged, EvOwnName, EvOver}

ParsePalette == {EvSmall, EvHalf, EvLimit, EvOver, EvOverPicked}

SeqsUpTo(S, n) == UNION {[1..k -> S] : k \in 0..n}

Repeat(e, n) == [i \in 1..n |-> e]

MainInputs == SeqsUpTo(MainPalette, MaxEvents)

CallPalette == {EvSmall, EvOver}

CallInputs == SeqsUpTo(CallPalette, MaxCallEvents)

SessionInputs == SeqsUpTo(SessionPalette, MaxSessionEvents)

\* a queue URL: its scheme and the last segment of its path, the queue
\* name followed by .fifo on a FIFO queue; host and account are well formed
Url(scheme, name, fifo) == [scheme |-> scheme, name |-> name, fifo |-> fifo]

UrlStandard == Url("https", "MySQSName", FALSE)

UrlFifo == Url("https", "MySQSName", TRUE)

UrlBad == Url("http", "MySQSName", FALSE)

MainUrls == {UrlStandard, UrlBad}

SessionUrls == {UrlStandard, UrlFifo}

DefaultSession == [clientCode |-> "defaultClient"]

\* this.session is not set
NoSession == Undefined

Sessions == {DefaultSession, NoSession}

\* process.env.JANIS_SERVICE_NAME
JANIS_SERVICE_NAME == "service-name"

ParseInputs ==
    {pre \o Repeat(EvSmall, n) \o post :
        pre \in SeqsUpTo(ParsePalette, MaxEdge),
        n \in 0..MaxRun,
        post \in SeqsUpTo(ParsePalette, MaxEdge)}

Bucket(name, region, len) ==
    [bucketName |-> name, region |-> region, len |-> len]

\* len is the length of the fragment ,"bucketName":"...","region":"..."
\* that formatBodyWithContentS3Path adds to the pointer body.
BucketEast == Bucket("sample-bucket-name-us-east-1", "us-east-1", 65)

BucketWest == Bucket("sample-bucket-name-us-west-1", "us-west-1", 65)

\* a 63 character bucket name in ap-southeast-1
BucketLong == Bucket("long-bucket-name", "ap-southeast-1", 105)

BucketLists == {<<>>, <<BucketEast, BucketWest>>, <<BucketLong>>}

-----------------------------------------------------------------------------
(* Pure functions of lib/sqs-emitter.js                                    *)

Min(a, b) == IF a <= b THEN a ELSE b

Range(f) == {f[x] : x \in DOMAIN f}

\* JSON.stringify of a content: undefined stays undefined, members whose
\* value is undefined are dropped; the string is modelled by the object it
\* denotes
Stringify(content) ==
    IF content = Undefined THEN Undefined
    ELSE [k \in {x \in DOMAIN content : content[x] # V("undefined")} |-> content[k]]

\* pickProperties(object, keys) of lib/helpers/pick-properties.js
pickProperties(object, keys) ==
    [k \in {x \in Range(keys) \cap DOMAIN object : object[x] # V("undefined")}
        |-> object[k]]

\* formatBodyWithContentS3Path, with a bucketInfo or without one (Undefined,
\* as handleEventSizeLimit calls it); JSON.parse(MessageBody) is the object
\* the string denotes. In the object literal the picked
\* properties are spread after contentS3Location, so a picked property of
\* that name takes its place (f @@ g keeps f where both are defined)
formatBodyWithContentS3Path(parsedEvent, payloadFixedProperties, contentS3Path, bucketInfo) ==
    (IF Len(payloadFixedProperties) > 0
     THEN pickProperties(parsedEvent.MessageBody, payloadFixedProperties)
     ELSE <<>>)
    @@ [contentS3Location |->
            IF bucketInfo = Undefined
            THEN [path |-> contentS3Path]
            ELSE [path |-> contentS3Path,
                  bucketName |-> bucketInfo.bucketName,
                  region |-> bucketInfo.region]]

\* the pattern of isValidSqsUrl asks for https
isValidSqsUrl(url) == url.scheme = "https"

\* getSqsNameFromUrl on a valid URL: the last segment, without the .fifo
\* that ends it on a FIFO queue
getSqsNameFromUrl(queueUrl) == queueUrl.name

HasClientCode == session # Undefined /\ "clientCode" \in DOMAIN session

\* one caller attribute: an array is serialized and typed String.Array,
\* any other value is turned into a string by String(value)
ParsedAttribute(value) ==
    IF "array" \in DOMAIN value
    THEN [DataType |-> "String.Array", StringValue |-> [json |-> value.array]]
    ELSE IF "bool" \in DOMAIN value
    THEN [DataType |-> "String",
          StringValue |-> V(IF value.bool THEN "true" ELSE "false")]
    ELSE [DataType |-> "String", StringValue |-> value]

\* parseMessageAttributes: sqsName, then janis-client when the session has
\* a clientCode, then every attribute of the caller assigned by its key
parseMessageAttributes(attributes, sqsName) ==
    LET own == [sqsName |-> [DataType |-> "String", StringValue |-> V(sqsName)]]
        client == IF HasClientCode
                  THEN [k \in {"janis-client"} |->
                            [DataType |-> "String",
                             StringValue |-> V(session.clientCode)]]
                  ELSE <<>>
        caller == IF attributes = Undefined THEN <<>>
                  ELSE [k \in DOMAIN attributes |-> ParsedAttribute(attributes[k])]
    IN  caller @@ client @@ own

\* getContentS3Path taking the client code of the session as it is
getContentS3PathWithoutFallback(sqsName, randomId) ==
    <<"sqsContent",
      IF HasClientCode THEN session.clientCode ELSE "undefined",
      JANIS_SERVICE_NAME, sqsName, "date", randomId>>

\* getContentS3Path: the segments joined by '/'; randomId is the value the
\* getter gives at that moment, the date is the day of the call
getContentS3Path(sqsName, randomId) ==
    <<"sqsContent",
      IF HasClientCode THEN session.clientCode ELSE "storage",
      JANIS_SERVICE_NAME, sqsName, "date", randomId>>

\* formatSQSEvent: Id is the 1-based event index; extraProperties rides along
formatSQSEvent(event, sqsName, eventIndex) ==
    [Id |-> eventIndex, base |-> event.base, body |-> event.body,
     extra |-> event.extra, stub |-> event.stub, limitExceeded |-> FALSE,
     MessageBody |-> Stringify(event.content),
     MessageAttributes |-> parseMessageAttributes(event.attributes, sqsName),
     contentFixed |-> Undefined,
     payloadFixedProperties |-> event.payloadFixedProperties,
     contentS3Path |-> getContentS3Path(sqsName, event.rid)]

\* JSON.stringify(parsedEvent).length, taken before limitExceeded is set
ParsedEventSize(pe) == pe.base + pe.body + pe.extra

\* handleEventSizeLimit taking a message of exactly the limit as over it
handleEventSizeLimitAtLimit(pe, parsedEventSize) ==
    IF parsedEventSize >= SQS_MESSAGE_LIMIT_SIZE
    THEN <<[pe EXCEPT !.limitExceeded = TRUE], pe.stub + estimatedBucketInfoSize>>
    ELSE <<pe, parsedEventSize>>

\* handleEventSizeLimit keeping the pointer body it measured as the
\* MessageBody of the event
handleEventSizeLimitReplacingBody(pe, parsedEventSize) ==
    IF parsedEventSize > SQS_MESSAGE_LIMIT_SIZE
    THEN <<[pe EXCEPT !.limitExceeded = TRUE,
                      !.MessageBody =
                          [contentS3Location |-> [path |-> pe.contentS3Path]]],
           pe.stub + estimatedBucketInfoSize>>
    ELSE <<pe, parsedEventSize>>

\* handleEventSizeLimit returns [parsedEvent, parsedEventSize]; the pointer
\* body it measures, a local of the function, is kept in contentFixed and
\* its length is the stub of the event
handleEventSizeLimit(pe, parsedEventSize) ==
    IF parsedEventSize > SQS_MESSAGE_LIMIT_SIZE
    THEN <<[pe EXCEPT !.limitExceeded = TRUE,
                      !.contentFixed =
                          formatBodyWithContentS3Path(pe, pe.payloadFixedProperties,
                                                      pe.contentS3Path, Undefined)],
           pe.stub + estimatedBucketInfoSize>>
    ELSE <<pe, parsedEventSize>>

\* ParseStep without the test on the number of entries
ParseStepNoCount(st, event, eventIndex) ==
    LET formatted == formatSQSEvent(event, st.sqsName, eventIndex)
        handled == handleEventSizeLimit(formatted, ParsedEventSize(formatted))
        cur == Len(st.batches)
    IN  IF st.currentBatchSize + handled[2] > SQS_MESSAGE_LIMIT_SIZE
        THEN [batches |-> Append(st.batches, <<handled[1]>>),
              currentBatchSize |-> handled[2],
              sqsName |-> st.sqsName]
        ELSE [batches |-> [st.batches EXCEPT ![cur] = Append(@, handled[1])],
              currentBatchSize |-> st.currentBatchSize + handled[2],
              sqsName |-> st.sqsName]

\* ParseStep testing the size of the batch before the message is added
ParseStepSizeBefore(st, event, eventIndex) ==
    LET formatted == formatSQSEvent(event, st.sqsName, eventIndex)
        handled == handleEventSizeLimit(formatted, ParsedEventSize(formatted))
        cur == Len(st.batches)
    IN  IF st.currentBatchSize > SQS_MESSAGE_LIMIT_SIZE
           \/ Len(st.batches[cur]) = SQS_MAX_BATCH_SIZE
        THEN [batches |-> Append(st.batches, <<handled[1]>>),
              currentBatchSize |-> handled[2],
              sqsName |-> st.sqsName]
        ELSE [batches |-> [st.batches EXCEPT ![cur] = Append(@, handled[1])],
              currentBatchSize |-> st.currentBatchSize + handled[2],
              sqsName |-> st.sqsName]

\* ParseStep starting the new batch in place of the current one, without
\* moving currentBatchIndex
ParseStepReplacingBatch(st, event, eventIndex) ==
    LET formatted == formatSQSEvent(event, st.sqsName, eventIndex)
        handled == handleEventSizeLimit(formatted, ParsedEventSize(formatted))
        cur == Len(st.batches)
    IN  IF st.currentBatchSize + handled[2] > SQS_MESSAGE_LIMIT_SIZE
           \/ Len(st.batches[cur]) = SQS_MAX_BATCH_SIZE
        THEN [batches |-> [st.batches EXCEPT ![cur] = <<handled[1]>>],
              currentBatchSize |-> handled[2],
              sqsName |-> st.sqsName]
        ELSE [batches |-> [st.batches EXCEPT ![cur] = Append(@, handled[1])],
              currentBatchSize |-> st.currentBatchSize + handled[2],
              sqsName |-> st.sqsName]

\* ParseStep opening a batch without counting the message that opens it
ParseStepResettingSize(st, event, eventIndex) ==
    LET formatted == formatSQSEvent(event, st.sqsName, eventIndex)
        handled == handleEventSizeLimit(formatted, ParsedEventSize(formatted))
        cur == Len(st.batches)
    IN  IF st.currentBatchSize + handled[2] > SQS_MESSAGE_LIMIT_SIZE
           \/ Len(st.batches[cur]) = SQS_MAX_BATCH_SIZE
        THEN [batches |-> Append(st.batches, <<handled[1]>>),
              currentBatchSize |-> 0,
              sqsName |-> st.sqsName]
        ELSE [batches |-> [st.batches EXCEPT ![cur] = Append(@, handled[1])],
              currentBatchSize |-> st.currentBatchSize + handled[2],
              sqsName |-> st.sqsName]

\* one iteration of the loop of parseEvents on the loop state
\* st = [batches, currentBatchSize, sqsName]
ParseStep(st, event, eventIndex) ==
    LET formatted == formatSQSEvent(event, st.sqsName, eventIndex)
        handled == handleEventSizeLimit(formatted, ParsedEventSize(formatted))
        parsedEvent == handled[1]
        parsedEventSize == handled[2]
        cur == Len(st.batches)
    IN  IF st.currentBatchSize + parsedEventSize > SQS_MESSAGE_LIMIT_SIZE
           \/ Len(st.batches[cur]) = SQS_MAX_BATCH_SIZE
        THEN [batches |-> Append(st.batches, <<parsedEvent>>),
              currentBatchSize |-> parsedEventSize,
              sqsName |-> st.sqsName]
        ELSE [batches |-> [st.batches EXCEPT ![cur] = Append(@, parsedEvent)],
              currentBatchSize |-> st.currentBatchSize + parsedEventSize,
              sqsName |-> st.sqsName]

RECURSIVE ParseLoop(_, _, _)
ParseLoop(evs, eventIndex, st) ==
    IF eventIndex > Len(evs) THEN st
    ELSE ParseLoop(evs, eventIndex + 1, ParseStep(st, evs[eventIndex], eventIndex))

parseEvents(evs, url) ==
    ParseLoop(evs, 1, [batches |-> << <<>> >>, currentBatchSize |-> 0,
                       sqsName |-> getSqsNameFromUrl(url)]).batches

-----------------------------------------------------------------------------
(* Helpers over batches                                                    *)

Perms(S) ==
    {f \in [1..Cardinality(S) -> S] : \A i, j \in DOMAIN f : i # j => f[i] # f[j]}

RECURSIVE SumSeq(_)
SumSeq(s) == IF s = <<>> THEN 0 ELSE Head(s) + SumSeq(Tail(s))

Map(s, Op(_)) == [k \in 1..Len(s) |-> Op(s[k])]

IsDirect(pe) == ~pe.limitExceeded

\* the parsed events of the call, whatever their batch
ParsedEvents == UNION {Range(parsedEvents[b]) : b \in DOMAIN parsedEvents}

\* the parsed event with Id m
ParsedEvent(m) == CHOOSE pe \in ParsedEvents : pe.Id = m

\* a pipeline that sends every message of batch b through
\* formatAndUploadEventWithS3Content
OffIdsEveryMessage(b) == {pe.Id : pe \in Range(parsedEvents[b])}

\* Ids of the messages of batch b that go through
\* formatAndUploadEventWithS3Content
OffIds(b) == {pe.Id : pe \in {x \in Range(parsedEvents[b]) : x.limitExceeded}}

OffIdsOf(B) == UNION {OffIds(b) : b \in B}

-----------------------------------------------------------------------------
(* ParameterStore: getParameterValue and getParameterArnFromRAM, both      *)
(* wrapped by micro-memoize with isPromise: a cache entry is "pending"     *)
(* while its promise is unsettled, is dropped when the promise rejects     *)
(* and stays "resolved" otherwise.                                         *)
(* memo = [arn, val, ram, ssm]: the two caches and the two call counters.  *)

Memo == [arn |-> arnCache, val |-> valueCache, ram |-> ramCalls, ssm |-> ssmCalls]

\* getParameterValue without memoize: every call lists the RAM resources
getParameterValueUncached(memo) ==
    [memo EXCEPT !.val = "pending", !.arn = "pending", !.ram = @ + 1]

\* one call of the memoized getParameterValue
getParameterValue(memo) ==
    IF memo.val # "empty"
    THEN memo
    ELSE IF memo.arn = "resolved"
         THEN [memo EXCEPT !.val = "pending", !.ssm = @ + 1]
         ELSE [memo EXCEPT !.val = "pending", !.arn = "pending",
                           !.ram = IF memo.arn = "empty" THEN @ + 1 ELSE @]

RECURSIVE AskAll(_, _)
AskAll(memo, k) == IF k = 0 THEN memo ELSE AskAll(getParameterValue(memo), k - 1)

-----------------------------------------------------------------------------
(* S3Uploader.uploadContentS3Path: the loop over the bucket list           *)

UpNone == [st |-> "none", i |-> 0, code |-> "none"]

UpWait == [st |-> "wait", i |-> 0, code |-> "none"]

\* a rejected getParameterValue caught and reported as an upload failure
UpRejectedAsUploadError(code) == [st |-> "err", i |-> 0, code |-> "S3_ERROR"]

UpRejected(code) == [st |-> "rej", i |-> 0, code |-> code]

\* uploadContentS3Path throwing S3_ERROR once every bucket has failed
NextUpThrowing(i, buckets) ==
    IF i < Len(buckets)
    THEN [st |-> "put", i |-> i + 1, code |-> "none"]
    ELSE UpRejected("S3_ERROR")

\* uploadContentS3Path trying the last bucket of the list again instead of
\* leaving the loop
NextUpRetryingLast(i, buckets) ==
    IF i < Len(buckets)
    THEN [st |-> "put", i |-> i + 1, code |-> "none"]
    ELSE IF i = Len(buckets) /\ i > 0
         THEN [st |-> "put", i |-> i, code |-> "none"]
         ELSE [st |-> "err", i |-> i, code |-> "S3_ERROR"]

\* the loop after i buckets have failed: put on the next bucket, or fall
\* out of the loop and return undefined
NextUp(i, buckets) ==
    IF i < Len(buckets)
    THEN [st |-> "put", i |-> i + 1, code |-> "none"]
    ELSE [st |-> "err", i |-> i, code |-> "S3_ERROR"]

\* uploadToBucket: the PutObjectCommand sent when the loop reaches state u
PutOf(u, pe) ==
    IF u.st = "put"
    THEN <<[bucket |-> u.i, res |-> "pending", Key |-> pe.contentS3Path,
            Body |-> pe.MessageBody]>>
    ELSE <<>>

\* the answer to the PutObjectCommand in flight, the last one sent
MarkLast(puts, res) == [puts EXCEPT ![Len(puts)].res = res]

-----------------------------------------------------------------------------
(* formatSQSResponse                                                       *)

RECURSIVE InsertById(_, _)
InsertById(x, s) ==
    IF s = <<>> THEN <<x>>
    ELSE IF x.Id < Head(s).Id THEN <<x>> \o s
         ELSE <<Head(s)>> \o InsertById(x, Tail(s))

\* result.Failed.sort((a, b) => Number(a.Id) - Number(b.Id)): a stable sort
RECURSIVE SortById(_)
SortById(s) ==
    IF s = <<>> THEN <<>>
    ELSE InsertById(s[Len(s)], SortById(SubSeq(s, 1, Len(s) - 1)))

EmptyResponse ==
    [successCount |-> 0, failedCount |-> 0, success |-> <<>>, failed |-> <<>>]

\* FoldResult assigning the failed list instead of pushing to it
FoldResultAssignFailed(response, result) ==
    [successCount |-> response.successCount + Len(result.Successful),
     failedCount |-> response.failedCount + Len(result.Failed),
     success |-> response.success \o result.Successful,
     failed |-> SortById(result.Failed)]

\* FoldResult pushing the failures as the pipeline returned them
FoldResultUnsorted(response, result) ==
    [successCount |-> response.successCount + Len(result.Successful),
     failedCount |-> response.failedCount + Len(result.Failed),
     success |-> response.success \o result.Successful,
     failed |-> response.failed \o result.Failed]

\* FoldResult adding one to failedCount for a result that has failures
FoldResultCountingResults(response, result) ==
    [successCount |-> response.successCount + Len(result.Successful),
     failedCount |-> response.failedCount
                        + (IF Len(result.Failed) > 0 THEN 1 ELSE 0),
     success |-> response.success \o result.Successful,
     failed |-> response.failed \o SortById(result.Failed)]

\* lines 835-856: the counts are added up, the successes pushed, the
\* failures of the result sorted by Id and pushed
FoldResult(response, result) ==
    [successCount |-> response.successCount + Len(result.Successful),
     failedCount |-> response.failedCount + Len(result.Failed),
     success |-> response.success \o result.Successful,
     failed |-> response.failed \o SortById(result.Failed)]

RECURSIVE formatSQSResponse(_)
formatSQSResponse(rs) ==
    IF rs = <<>> THEN EmptyResponse
    ELSE FoldResult(formatSQSResponse(SubSeq(rs, 1, Len(rs) - 1)), rs[Len(rs)])

-----------------------------------------------------------------------------
(* AsyncWithConcurrency                                                    *)

\* a dispatcher that starts everything that is queued
AdmitAll(queued, active) == queued

\* how many queued items the dispatcher starts when `active` are running
AdmitCount(queued, active) ==
    IF active >= MAX_CONCURRENCY THEN 0 ELSE Min(queued, MAX_CONCURRENCY - active)

-----------------------------------------------------------------------------
(* Initial state: a publishEvents call about to run, caches empty          *)

\* everything a call has not touched yet
Untouched ==
    /\ parsedEvents = <<>>
    /\ activeCount = 0
    /\ results = <<>>
    /\ pcB = <<>>
    /\ up = <<>>
    /\ sent = <<>>
    /\ arnCache = "empty"
    /\ valueCache = "empty"
    /\ bucketList = <<>>
    /\ ramCalls = 0
    /\ ssmCalls = 0
    /\ s3Puts = <<>>
    /\ rejectReason = "none"
    /\ summary = EmptyResponse
    /\ lastError = "none"

InitWith(evs, url) ==
    /\ calls = 1
    /\ sqsUrl = url
    /\ events = evs
    /\ pc = "start"
    /\ queue = <<>>
    /\ Untouched

\* a getSqsNameFromUrl that takes the last segment of any URL
getSqsNameFromUrlLenient == FALSE

\* getSqsNameFromUrl throws INVALID_QUEUE_URL when isValidSqsUrl fails
getSqsNameFromUrlThrows == ~isValidSqsUrl(sqsUrl)

\* publishEvents line 769: parseEvents, which throws INVALID_QUEUE_URL from
\* getSqsNameFromUrl before the loop
Parse ==
    /\ pc = "start"
    /\ IF ~getSqsNameFromUrlThrows
       THEN /\ parsedEvents' = parseEvents(events, sqsUrl)
            /\ pc' = "parsed"
            /\ pcB' = [b \in 1..Len(parseEvents(events, sqsUrl)) |-> "queued"]
            /\ sent' = [b \in 1..Len(parseEvents(events, sqsUrl)) |-> <<>>]
            /\ up' = [m \in 1..Len(events) |-> UpNone]
            /\ s3Puts' = [m \in 1..Len(events) |-> <<>>]
            /\ UNCHANGED rejectReason
       ELSE /\ pc' = "rejected"
            /\ rejectReason' = "INVALID_QUEUE_URL"
            /\ UNCHANGED <<parsedEvents, pcB, sent, up, s3Puts>>
    /\ UNCHANGED <<calls, lastError, sqsUrl, session, events, queue, activeCount, results,
                   arnCache, valueCache, bucketList, ramCalls, ssmCalls,
                   summary>>

-----------------------------------------------------------------------------
(* The batch pipeline: the worker given to AsyncWithConcurrency            *)

UploadedOk(pe) == pe.limitExceeded /\ up[pe.Id].st = "ok"

UploadFailed(pe) == pe.limitExceeded /\ up[pe.Id].st = "err"

\* an entry that was not over the limit: parsedEvent without extraProperties
DirectEntry(pe) ==
    [Id |-> pe.Id, pointer |-> FALSE, bucket |-> 0, size |-> pe.base + pe.body,
     MessageBody |-> pe.MessageBody, MessageAttributes |-> pe.MessageAttributes]

\* formatAndUploadEventWithS3Content after a successful upload: MessageBody
\* is the pointer body with the bucketName and region of the winning bucket
PointerEntry(pe) ==
    [Id |-> pe.Id, pointer |-> TRUE, bucket |-> up[pe.Id].i,
     size |-> pe.base + pe.stub + bucketList[up[pe.Id].i].len,
     MessageBody |-> formatBodyWithContentS3Path(pe, pe.payloadFixedProperties,
                        pe.contentS3Path, bucketList[up[pe.Id].i]),
     MessageAttributes |-> pe.MessageAttributes]

\* formatAndUploadEventWithS3Content when no bucket took the content
S3Error(pe) == [Id |-> pe.Id, Code |-> "S3_ERROR"]

\* formattedSqsBatch: the direct entries, then the uploaded ones
BatchEntries(b) ==
    Map(SelectSeq(parsedEvents[b], IsDirect), DirectEntry)
        \o Map(SelectSeq(parsedEvents[b], UploadedOk), PointerEntry)

\* a pipeline that forgets the messages whose upload failed
S3FailedDropped(b) == <<>>

S3Failed(b) == Map(SelectSeq(parsedEvents[b], UploadFailed), S3Error)

\* the synchronous start of the pipelines of the batches B: every message
\* over the limit calls formatAndUploadEventWithS3Content, which asks
\* getParameterValue; on a cache hit the upload loop starts at once
StartUploads(offs, upBase, putsBase, pes) ==
    LET memo == AskAll(Memo, Cardinality(offs))
        hit == memo.val = "resolved"
    IN  /\ arnCache' = memo.arn
        /\ valueCache' = memo.val
        /\ ramCalls' = memo.ram
        /\ ssmCalls' = memo.ssm
        /\ up' = [m \in DOMAIN upBase |->
                    IF m \in offs
                    THEN IF hit THEN NextUp(0, bucketList) ELSE UpWait
                    ELSE upBase[m]]
        /\ s3Puts' = [m \in DOMAIN putsBase |->
                        IF m \in offs /\ hit
                        THEN putsBase[m] \o PutOf(NextUp(0, bucketList), pes[m])
                        ELSE putsBase[m]]
        /\ UNCHANGED bucketList

StartPipelines(B, pcBase) ==
    /\ StartUploads(OffIdsOf(B), up, s3Puts,
                    [m \in OffIdsOf(B) |-> ParsedEvent(m)])
    /\ pcB' = [b \in DOMAIN pcBase |-> IF b \in B THEN "uploading" ELSE pcBase[b]]

\* AsyncWithConcurrency.run(parsedEvents): the first MAX_CONCURRENCY batches
\* start, the others wait in the queue
Run ==
    /\ pc = "parsed"
    /\ LET n == Len(parsedEvents)
           k == AdmitCount(n, 0)
       IN  /\ queue' = [j \in 1..(n - k) |-> k + j]
           /\ activeCount' = k
           /\ StartPipelines(1..k, pcB)
    /\ pc' = "running"
    /\ UNCHANGED <<calls, lastError, sqsUrl, session, events, parsedEvents, results, sent,
                   rejectReason, summary>>

\* the pipeline of batch b settles: its slot is freed and queued batches
\* are started; run rejects on the first failure and resolves with the
\* results once nothing is queued or running; publishEvents then returns
\* formatSQSResponse(results)
Settle(b, ok, result, code) ==
    LET a1 == activeCount - 1
        k == AdmitCount(Len(queue), a1)
        newResults == IF ok THEN Append(results, result) ELSE results
    IN  /\ queue' = SubSeq(queue, k + 1, Len(queue))
        /\ activeCount' = a1 + k
        /\ results' = newResults
        /\ StartPipelines({queue[j] : j \in 1..k},
                          [pcB EXCEPT ![b] = IF ok THEN "done" ELSE "failed"])
        /\ IF pc = "running" /\ ~ok
           THEN /\ pc' = "rejected"
                /\ rejectReason' = code
                /\ UNCHANGED summary
           ELSE IF pc = "running" /\ k = 0 /\ a1 = 0
                THEN /\ pc' = "returned"
                     /\ summary' = formatSQSResponse(newResults)
                     /\ UNCHANGED rejectReason
                ELSE UNCHANGED <<pc, rejectReason, summary>>

\* a pipeline that goes on as soon as one of its uploads has finished
UploadsSettledAny(b) ==
    OffIds(b) # {} => \E m \in OffIds(b) : up[m].st \in {"ok", "err"}

\* await Promise.all(promises) has resolved: every
\* formatAndUploadEventWithS3Content of the batch returned
UploadsSettled(b) == \A m \in OffIds(b) : up[m].st \in {"ok", "err"}

\* a pipeline that calls SendMessageBatch whatever is left of the batch
SendBatchEvenIfEmpty(b) ==
    /\ pcB[b] = "uploading"
    /\ UploadsSettled(b)
    /\ sent' = [sent EXCEPT ![b] = BatchEntries(b)]
    /\ pcB' = [pcB EXCEPT ![b] = "sending"]
    /\ UNCHANGED <<calls, lastError, sqsUrl, session, events, pc, parsedEvents, queue, activeCount,
                   results, up, arnCache, valueCache, bucketList, ramCalls,
                   ssmCalls, s3Puts, rejectReason, summary>>

\* lines 788-808: Promise.all resolved and some entry remains: the batch
\* is sent
SendBatch(b) ==
    /\ pcB[b] = "uploading"
    /\ UploadsSettled(b)
    /\ BatchEntries(b) # <<>>
    /\ sent' = [sent EXCEPT ![b] = BatchEntries(b)]
    /\ pcB' = [pcB EXCEPT ![b] = "sending"]
    /\ UNCHANGED <<calls, lastError, sqsUrl, session, events, pc, parsedEvents, queue, activeCount,
                   results, up, arnCache, valueCache, bucketList, ramCalls,
                   ssmCalls, s3Puts, rejectReason, summary>>

\* lines 801-815 when formattedSqsBatch is empty: no send, the response is
\* {Failed: s3Failed}
SkipSend(b) ==
    /\ pcB[b] = "uploading"
    /\ UploadsSettled(b)
    /\ BatchEntries(b) = <<>>
    /\ Settle(b, TRUE, [Successful |-> <<>>, Failed |-> S3Failed(b)], "none")
    /\ UNCHANGED <<calls, lastError, sqsUrl, session, events, parsedEvents, sent>>

\* Promise.all rejects because getParameterValue rejected
PipelineReject(b) ==
    /\ pcB[b] = "uploading"
    /\ \E m \in OffIds(b) :
        /\ up[m].st = "rej"
        /\ Settle(b, FALSE, <<>>, up[m].code)
    /\ UNCHANGED <<calls, lastError, sqsUrl, session, events, parsedEvents, sent>>

\* SendMessageBatch answers: every entry is reported once, in Successful
\* or in Failed, in an order the transport chooses; the S3 failures are
\* pushed after the transport's
SendResolved(b) ==
    /\ pcB[b] = "sending"
    /\ LET ids == {e.Id : e \in Range(sent[b])}
       IN  \E okIds \in SUBSET ids :
             \E succ \in Perms(okIds), fail \in Perms(ids \ okIds) :
                Settle(b, TRUE,
                       [Successful |-> succ,
                        Failed |-> [k \in 1..Len(fail) |->
                                       [Id |-> fail[k], Code |-> "SQS001"]]
                                   \o S3Failed(b)],
                       "none")
    /\ UNCHANGED <<calls, lastError, sqsUrl, session, events, parsedEvents, sent>>

\* this.sqs.send rejects: the pipeline rejects
SendRejected(b) ==
    /\ pcB[b] = "sending"
    /\ Settle(b, FALSE, <<>>, "SQS_SEND_ERROR")
    /\ UNCHANGED <<calls, lastError, sqsUrl, session, events, parsedEvents, sent>>

-----------------------------------------------------------------------------
(* publishEvent: one event, sent with SendMessageCommand. The formatted    *)
(* event is kept as the only message of parsedEvents, with index 1 in up   *)
(* and s3Puts, and the input of the SendMessageCommand as sent[1].         *)

\* what formatAndUploadEventWithS3Content returns when no bucket took the
\* content, spread into the SendMessageCommand: no MessageBody at all
ErrorEntry(pe) ==
    [Id |-> pe.Id, pointer |-> FALSE, bucket |-> 0, size |-> 0,
     MessageBody |-> Undefined, MessageAttributes |-> Undefined]

\* lines 741-759 up to the first await: the URL check, formatSQSEvent, the
\* size test, then either formatAndUploadEventWithS3Content asks for the
\* bucket list or the SendMessageCommand is sent
PublishEvent ==
    /\ pc = "startOne"
    /\ IF getSqsNameFromUrlThrows
       THEN /\ pc' = "rejected"
            /\ rejectReason' = "INVALID_QUEUE_URL"
            /\ UNCHANGED <<parsedEvents, up, sent, s3Puts, arnCache,
                           valueCache, bucketList, ramCalls, ssmCalls>>
       ELSE LET parsedEvent == formatSQSEvent(events[1], getSqsNameFromUrl(sqsUrl), 1)
                over == ParsedEventSize(parsedEvent) > SQS_MESSAGE_LIMIT_SIZE
            IN  /\ parsedEvents' =
                        << <<[parsedEvent EXCEPT !.limitExceeded = over]>> >>
                /\ UNCHANGED rejectReason
                /\ IF over
                   THEN /\ StartUploads({1}, <<UpNone>>, << <<>> >>, <<parsedEvent>>)
                        /\ sent' = << <<>> >>
                        /\ pc' = "oneUploading"
                   ELSE /\ sent' = << <<DirectEntry(parsedEvent)>> >>
                        /\ up' = <<UpNone>>
                        /\ s3Puts' = << <<>> >>
                        /\ pc' = "oneSending"
                        /\ UNCHANGED <<arnCache, valueCache, bucketList,
                                       ramCalls, ssmCalls>>
    /\ UNCHANGED <<calls, lastError, sqsUrl, session, events, queue, activeCount, results, pcB,
                   summary>>

\* lines 751-759: formatAndUploadEventWithS3Content has returned, the event
\* with its pointer body or the {Error} object, and the command is sent
OneUploaded ==
    /\ pc = "oneUploading"
    /\ up[1].st \in {"ok", "err"}
    /\ sent' = << <<IF up[1].st = "ok"
                    THEN PointerEntry(parsedEvents[1][1])
                    ELSE ErrorEntry(parsedEvents[1][1])>> >>
    /\ pc' = "oneSending"
    /\ UNCHANGED <<calls, lastError, sqsUrl, session, events, parsedEvents, queue, activeCount,
                   results, pcB, up, arnCache, valueCache, bucketList,
                   ramCalls, ssmCalls, s3Puts, rejectReason, summary>>

\* getParameterValue rejected: publishEvent throws its error
OneUploadRejected ==
    /\ pc = "oneUploading"
    /\ up[1].st = "rej"
    /\ pc' = "rejected"
    /\ rejectReason' = up[1].code
    /\ UNCHANGED <<calls, lastError, sqsUrl, session, events, parsedEvents, queue, activeCount,
                   results, pcB, up, sent, arnCache, valueCache, bucketList,
                   ramCalls, ssmCalls, s3Puts, summary>>

\* lines 761-764: SendMessage answered, publishEvent returns the messageId
OneSendResolved ==
    /\ pc = "oneSending"
    /\ pc' = "returnedOne"
    /\ UNCHANGED <<calls, lastError, sqsUrl, session, events, parsedEvents, queue, activeCount,
                   results, pcB, up, sent, arnCache, valueCache, bucketList,
                   ramCalls, ssmCalls, s3Puts, rejectReason, summary>>

\* this.sqs.send rejects: publishEvent throws
OneSendRejected ==
    /\ pc = "oneSending"
    /\ pc' = "rejected"
    /\ rejectReason' = "SQS_SEND_ERROR"
    /\ UNCHANGED <<calls, lastError, sqsUrl, session, events, parsedEvents, queue, activeCount,
                   results, pcB, up, sent, arnCache, valueCache, bucketList,
                   ramCalls, ssmCalls, s3Puts, summary>>

-----------------------------------------------------------------------------
(* Answers of RAM, SSM and S3                                              *)

Waiting == {m \in DOMAIN up : up[m].st = "wait"}

RamInFlight == arnCache = "pending"

SsmInFlight == valueCache = "pending" /\ arnCache = "resolved"

\* getParameterArnFromRAM returns the ARN; getParameterValue sends
\* GetParameterCommand
RamResolved ==
    /\ RamInFlight
    /\ arnCache' = "resolved"
    /\ ssmCalls' = ssmCalls + 1
    /\ UNCHANGED <<calls, lastError, sqsUrl, session, events, pc, parsedEvents, queue, activeCount,
                   results, pcB, up, sent, valueCache, bucketList, ramCalls,
                   s3Puts, rejectReason, summary>>

\* ListResources failed or no resource matches: RAM_ERROR; both promises
\* reject and leave their caches
RamRejected ==
    /\ RamInFlight
    /\ \E cause \in {"listing failed", "no matching resource"} :
        /\ arnCache' = "empty"
        /\ valueCache' = "empty"
        /\ up' = [m \in DOMAIN up |->
                    IF m \in Waiting THEN UpRejected("RAM_ERROR") ELSE up[m]]
    /\ UNCHANGED <<calls, lastError, sqsUrl, session, events, pc, parsedEvents, queue, activeCount,
                   results, pcB, sent, bucketList, ramCalls, ssmCalls,
                   s3Puts, rejectReason, summary>>

\* the parameter is read: every waiting formatAndUploadEventWithS3Content
\* enters uploadContentS3Path
SsmResolved ==
    /\ SsmInFlight
    /\ \E buckets \in BucketLists :
        /\ bucketList' = buckets
        /\ valueCache' = "resolved"
        /\ up' = [m \in DOMAIN up |->
                    IF m \in Waiting THEN NextUp(0, buckets) ELSE up[m]]
        /\ s3Puts' = [m \in DOMAIN s3Puts |->
                        IF m \in Waiting
                        THEN s3Puts[m] \o PutOf(NextUp(0, buckets), ParsedEvent(m))
                        ELSE s3Puts[m]]
    /\ UNCHANGED <<calls, lastError, sqsUrl, session, events, pc, parsedEvents, queue, activeCount,
                   results, pcB, sent, arnCache, ramCalls, ssmCalls,
                   rejectReason, summary>>

\* GetParameter failed under a memoize that keeps the rejected promise
SsmRejectedKeepingEntry ==
    /\ SsmInFlight
    /\ valueCache' = "rejected"
    /\ up' = [m \in DOMAIN up |->
                IF m \in Waiting THEN UpRejected("SSM_ERROR") ELSE up[m]]
    /\ UNCHANGED <<calls, lastError, sqsUrl, session, events, pc, parsedEvents,
                   queue, activeCount, results, pcB, sent, arnCache,
                   bucketList, ramCalls, ssmCalls, s3Puts, rejectReason,
                   summary>>

\* GetParameter failed: SSM_ERROR; the ARN stays cached
SsmRejected ==
    /\ SsmInFlight
    /\ valueCache' = "empty"
    /\ up' = [m \in DOMAIN up |->
                IF m \in Waiting THEN UpRejected("SSM_ERROR") ELSE up[m]]
    /\ UNCHANGED <<calls, lastError, sqsUrl, session, events, pc, parsedEvents, queue, activeCount,
                   results, pcB, sent, arnCache, bucketList, ramCalls,
                   ssmCalls, s3Puts, rejectReason, summary>>

\* PutObject succeeded on bucket up[m].i: uploadContentS3Path returns it
PutResolved(m) ==
    /\ up[m].st = "put"
    /\ up' = [up EXCEPT ![m] = [st |-> "ok", i |-> up[m].i, code |-> "none"]]
    /\ s3Puts' = [s3Puts EXCEPT ![m] = MarkLast(@, "ok")]
    /\ UNCHANGED <<calls, lastError, sqsUrl, session, events, pc, parsedEvents, queue, activeCount,
                   results, pcB, sent, arnCache, valueCache, bucketList,
                   ramCalls, ssmCalls, rejectReason, summary>>

\* PutObject failed: uploadToBucket returns the error, the loop goes on
PutRejected(m) ==
    /\ up[m].st = "put"
    /\ up' = [up EXCEPT ![m] = NextUp(up[m].i, bucketList)]
    /\ s3Puts' = [s3Puts EXCEPT
                    ![m] = MarkLast(@, "failed")
                            \o PutOf(NextUp(up[m].i, bucketList), ParsedEvent(m))]
    /\ UNCHANGED <<calls, lastError, sqsUrl, session, events, pc, parsedEvents, queue, activeCount,
                   results, pcB, sent, arnCache, valueCache, bucketList,
                   ramCalls, ssmCalls, rejectReason, summary>>

-----------------------------------------------------------------------------
(* The publishEvents call                                                  *)

\* a publishEvent call about to run, caches empty
InitOneWith(event, url) ==
    /\ calls = 1
    /\ sqsUrl = url
    /\ events = <<event>>
    /\ pc = "startOne"
    /\ queue = <<>>
    /\ Untouched

Init ==
    /\ session = DefaultSession
    /\ \/ \E evs \in MainInputs, url \in MainUrls : InitWith(evs, url)
       \/ \E event \in MainPalette, url \in MainUrls : InitOneWith(event, url)

Next ==
    \/ Parse
    \/ Run
    \/ PublishEvent
    \/ OneUploaded
    \/ OneUploadRejected
    \/ OneSendResolved
    \/ OneSendRejected
    \/ \E b \in DOMAIN pcB : SendBatch(b)
    \/ \E b \in DOMAIN pcB : SkipSend(b)
    \/ \E b \in DOMAIN pcB : PipelineReject(b)
    \/ \E b \in DOMAIN pcB : SendResolved(b)
    \/ \E b \in DOMAIN pcB : SendRejected(b)
    \/ RamResolved
    \/ RamRejected
    \/ SsmResolved
    \/ SsmRejected
    \/ \E m \in DOMAIN up : PutResolved(m)
    \/ \E m \in DOMAIN up : PutRejected(m)

Spec == Init /\ [][Next]_vars

-----------------------------------------------------------------------------
(* Several calls in one process: the caches of ParameterStore are module   *)
(* state and outlive a call; nothing in lib/ calls clearCache              *)

\* the call has returned or thrown and none of its pipelines is running
Quiescent ==
    /\ pc \in {"returned", "returnedOne", "rejected"}
    /\ \A b \in DOMAIN pcB : pcB[b] \in {"done", "failed"}

\* the caller makes the next publishEvents or publishEvent call: a fresh
\* call state, the call counters at zero, the memoize caches as the last
\* call left them
NewCall ==
    /\ Quiescent
    /\ calls < MaxCalls
    /\ calls' = calls + 1
    /\ lastError' = IF pc = "rejected" THEN rejectReason ELSE "none"
    /\ \E evs \in CallInputs, url \in MainUrls :
        /\ sqsUrl' = url
        /\ events' = evs
        /\ pc' \in IF Len(evs) = 1 THEN {"start", "startOne"} ELSE {"start"}
    /\ parsedEvents' = <<>>
    /\ queue' = <<>>
    /\ activeCount' = 0
    /\ results' = <<>>
    /\ pcB' = <<>>
    /\ up' = <<>>
    /\ sent' = <<>>
    /\ ramCalls' = 0
    /\ ssmCalls' = 0
    /\ s3Puts' = <<>>
    /\ rejectReason' = "none"
    /\ summary' = EmptyResponse
    /\ UNCHANGED <<session, arnCache, valueCache, bucketList>>

InitCalls ==
    /\ session = DefaultSession
    /\ \/ \E evs \in CallInputs, url \in MainUrls : InitWith(evs, url)
       \/ \E event \in CallPalette, url \in MainUrls : InitOneWith(event, url)

NextCalls == Next \/ NewCall

SpecCalls == InitCalls /\ [][NextCalls]_vars

-----------------------------------------------------------------------------
(* Emitters with and without a session, events with attributes of their    *)
(* own, standard and FIFO queues                                           *)

InitSession ==
    /\ session \in Sessions
    /\ \/ \E evs \in SessionInputs, url \in SessionUrls : InitWith(evs, url)
       \/ \E event \in SessionPalette, url \in SessionUrls :
                InitOneWith(event, url)

SpecSession == InitSession /\ [][Next]_vars

-----------------------------------------------------------------------------
(* parseEvents alone, on longer lists                                      *)

InitParse ==
    /\ session = DefaultSession
    /\ \E evs \in ParseInputs, url \in MainUrls : InitWith(evs, url)

NextParse == Parse

SpecParse == InitParse /\ [][NextParse]_vars

-----------------------------------------------------------------------------
(* AsyncWithConcurrency alone, on more items than MAX_CONCURRENCY: the     *)
(* items are opaque tasks that fulfil with an empty batch result           *)

InitRun ==
    \E n \in 0..MaxTasks :
        /\ calls = 1
        /\ sqsUrl = UrlStandard
        /\ session = DefaultSession
        /\ events = <<>>
        /\ pc = "tasks"
        /\ queue = [j \in 1..n |-> j]
        /\ Untouched

\* run(items): the first items start
TaskRun ==
    /\ pc = "tasks"
    /\ LET k == AdmitCount(Len(queue), 0)
       IN  /\ queue' = SubSeq(queue, k + 1, Len(queue))
           /\ activeCount' = k
           /\ pc' = IF k = 0 THEN "tasksDone" ELSE "tasksRunning"
    /\ UNCHANGED <<calls, lastError, sqsUrl, session, events, parsedEvents, results, pcB, up, sent,
                   arnCache, valueCache, bucketList, ramCalls, ssmCalls,
                   s3Puts, rejectReason, summary>>

\* a dispatcher that starts no queued item once a task has failed
TaskSettleStoppingOnFailure ==
    /\ pc \in {"tasksRunning", "tasksRejected"}
    /\ activeCount > 0
    /\ \E ok \in BOOLEAN :
        LET a1 == activeCount - 1
            k == IF ok /\ pc = "tasksRunning"
                 THEN AdmitCount(Len(queue), a1) ELSE 0
        IN  /\ queue' = SubSeq(queue, k + 1, Len(queue))
            /\ activeCount' = a1 + k
            /\ results' = IF ok
                          THEN Append(results, [Successful |-> <<>>, Failed |-> <<>>])
                          ELSE results
            /\ pc' = IF pc = "tasksRunning" /\ ~ok THEN "tasksRejected"
                     ELSE IF pc = "tasksRunning" /\ a1 + k = 0 THEN "tasksDone"
                          ELSE pc
    /\ UNCHANGED <<calls, lastError, sqsUrl, session, events, parsedEvents, pcB, up, sent,
                   arnCache, valueCache, bucketList, ramCalls, ssmCalls,
                   s3Puts, rejectReason, summary>>

\* a running task settles, fulfilled or rejected: its slot is freed and
\* queued items start; a fulfilled task's result is kept; run rejects on the
\* first failure and resolves once nothing is queued or running
TaskSettle ==
    /\ pc \in {"tasksRunning", "tasksRejected"}
    /\ activeCount > 0
    /\ \E ok \in BOOLEAN :
        LET a1 == activeCount - 1
            k == AdmitCount(Len(queue), a1)
        IN  /\ queue' = SubSeq(queue, k + 1, Len(queue))
            /\ activeCount' = a1 + k
            /\ results' = IF ok
                          THEN Append(results, [Successful |-> <<>>, Failed |-> <<>>])
                          ELSE results
            /\ pc' = IF pc = "tasksRunning" /\ ~ok THEN "tasksRejected"
                     ELSE IF pc = "tasksRunning" /\ a1 + k = 0 THEN "tasksDone"
                          ELSE pc
    /\ UNCHANGED <<calls, lastError, sqsUrl, session, events, parsedEvents, pcB, up, sent,
                   arnCache, valueCache, bucketList, ramCalls, ssmCalls,
                   s3Puts, rejectReason, summary>>

NextRun == TaskRun \/ TaskSettle

SpecRun == InitRun /\ [][NextRun]_vars

\* every call the tasks wait for completes and the event loop runs every
\* callback that is ready
SpecRunLive == SpecRun /\ WF_vars(TaskRun) /\ WF_vars(TaskSettle)

-----------------------------------------------------------------------------
(* Properties                                                              *)

EventIds == 1..Len(events)

BatchIds(b) == {pe.Id : pe \in Range(parsedEvents[b])}

SentIds(b) == {e.Id : e \in Range(sent[b])}

FailedUploadIds(b) ==
    {pe.Id : pe \in {x \in Range(parsedEvents[b]) : UploadFailed(x)}}

Occurrences(id) ==
    Cardinality({k \in DOMAIN summary.success : summary.success[k] = id})
        + Cardinality({k \in DOMAIN summary.failed : summary.failed[k].Id = id})

\* the size parseEvents adds to currentBatchSize for a parsed event
EvaluatedSize(pe) ==
    IF pe.limitExceeded THEN pe.stub + estimatedBucketInfoSize ELSE ParsedEventSize(pe)

EntrySize(e) == e.size

\* a ListResources call was made and getParameterValue has rejected: its
\* cache entry is gone
ResolutionFailed == ramCalls >= 1 /\ valueCache = "empty"

NoPut == \A m \in DOMAIN s3Puts : s3Puts[m] = <<>>

C3_RejectedMeansNothingSent ==
    pc = "rejected" =>
        \A k \in DOMAIN results : results[k].Successful = <<>>

\* C4: the number of pipelines started and not yet settled never exceeds
\* MAX_CONCURRENCY.
C4_ActiveWithinConcurrency == activeCount <= MAX_CONCURRENCY

\* the dispatcher is saturated while items are still queued
C4_Witness == activeCount = MAX_CONCURRENCY /\ queue # <<>> /\ results # <<>>

\* C5: every batch produced by parseEvents, hence every Entries list, holds
\* at most SQS_MAX_BATCH_SIZE entries.
C5_BatchAtMostTenEntries ==
    /\ \A b \in DOMAIN parsedEvents : Len(parsedEvents[b]) <= SQS_MAX_BATCH_SIZE
    /\ \A b \in DOMAIN sent : Len(sent[b]) <= SQS_MAX_BATCH_SIZE

\* a full batch followed by a further batch that the count limit opened
C5_Witness ==
    \E b \in DOMAIN parsedEvents :
        /\ Len(parsedEvents[b]) = SQS_MAX_BATCH_SIZE
        /\ b < Len(parsedEvents)
        /\ SumSeq(Map(parsedEvents[b], EvaluatedSize))
              + EvaluatedSize(parsedEvents[b + 1][1]) <= SQS_MESSAGE_LIMIT_SIZE

\* C6: in every batch produced by parseEvents the evaluated sizes sum to at
\* most SQS_MESSAGE_LIMIT_SIZE, unless the batch holds a single message.
C6_BatchBytesWithinLimit ==
    \A b \in DOMAIN parsedEvents :
        \/ Len(parsedEvents[b]) = 1
        \/ SumSeq(Map(parsedEvents[b], EvaluatedSize)) <= SQS_MESSAGE_LIMIT_SIZE

\* a batch of several messages filled to the limit, closed by the byte test
C6_Witness ==
    \E b \in DOMAIN parsedEvents :
        /\ Len(parsedEvents[b]) >= 2
        /\ Len(parsedEvents[b]) < SQS_MAX_BATCH_SIZE
        /\ SumSeq(Map(parsedEvents[b], EvaluatedSize)) = SQS_MESSAGE_LIMIT_SIZE
        /\ b < Len(parsedEvents)

\* C7: the final entries of every SendMessageBatch call made sum to at most
\* SQS_MESSAGE_LIMIT_SIZE, offloaded messages counted with their pointer
\* body, bucket data and attributes.
C7_SentBytesWithinLimit ==
    \A b \in DOMAIN sent :
        SumSeq(Map(sent[b], EntrySize)) <= SQS_MESSAGE_LIMIT_SIZE

\* C8: a message whose upload failed on every bucket is left out of the
\* Entries of its batch while the rest of the batch is sent, is reported in
\* failed with Code S3_ERROR and its own Id, and never rejects the call.
C8_UploadFailureIsPerMessage ==
    /\ rejectReason # "S3_ERROR"
    /\ \A b \in DOMAIN pcB :
         (FailedUploadIds(b) # {} /\ pcB[b] \in {"sending", "done", "failed"}) =>
            SentIds(b) = BatchIds(b) \ FailedUploadIds(b)
    /\ pc = "returned" =>
         \A b \in DOMAIN pcB : \A id \in FailedUploadIds(b) :
            /\ id \notin Range(summary.success)
            /\ Cardinality({k \in DOMAIN summary.failed :
                    summary.failed[k] = [Id |-> id, Code |-> "S3_ERROR"]}) = 1
            /\ Cardinality({k \in DOMAIN summary.failed :
                    summary.failed[k].Id = id}) = 1

\* a returned call in which one message of a batch failed on every bucket
\* and a sibling of the same batch was sent
C8_Witness ==
    /\ pc = "returned"
    /\ \E b \in DOMAIN pcB :
        /\ FailedUploadIds(b) # {}
        /\ sent[b] # <<>>
        /\ \E m \in FailedUploadIds(b) : up[m].i >= 1

PastResolution == {m \in DOMAIN up : up[m].st \in {"put", "ok", "err"}}

\* C11: a call that needs offload performs a fresh resolution even when an
\* earlier call of the process resolved the list: whenever a message of
\* the call has its bucket list, ListResources and GetParameter were sent
\* during that call.
C11_FreshResolutionPerCall ==
    PastResolution # {} => ramCalls >= 1 /\ ssmCalls >= 1

\* the events whose formatted message is over the single-message limit
Oversized ==
    {m \in EventIds :
        ParsedEventSize(formatSQSEvent(events[m], getSqsNameFromUrl(sqsUrl), m)) > SQS_MESSAGE_LIMIT_SIZE}

Sends == {b \in DOMAIN sent : sent[b] # <<>>}

\* C12: a call in which no message is over the single-message limit sends
\* no ListResources, no GetParameter and no PutObject, at any point of the
\* call.
C12_NoOffloadNoResolution ==
    Oversized = {} => ramCalls = 0 /\ ssmCalls = 0 /\ NoPut

\* a call of several messages, none over the limit, has sent its batches
\* and returned
C12_Witness ==
    /\ pc = "returned"
    /\ Len(events) >= 2
    /\ Oversized = {}
    /\ summary.successCount >= 1
    /\ Sends # {}

RECURSIVE Ascending(_)
Ascending(ids) ==
    \/ Len(ids) <= 1
    \/ ids[1] < ids[2] /\ Ascending(Tail(ids))

EntryId(e) == e.Id

\* C13: the Entries of every SendMessageBatch call are in ascending Id
\* order, the order of the batch's messages, also when the batch mixes
\* offloaded and direct messages.
C13_EntriesInMessageOrder ==
    \A b \in DOMAIN sent : Ascending(Map(sent[b], EntryId))

PutBucket(put) == put.bucket

\* the puts of message m: all before the last one have failed
EarlierPutsFailed(m) ==
    \A k \in 1..(Len(s3Puts[m]) - 1) : s3Puts[m][k].res = "failed"

\* C14: for every message the PutObject commands go to buckets 1, 2, ... of
\* the list in that order, one at a time and each bucket at most once; a
\* put is sent only after every earlier one failed, none is sent after one
\* that succeeded, and the bucket returned is the one whose put succeeded,
\* the first of the list that accepted the content.
C14_BucketsInOrderUntilFirstSuccess ==
    \A m \in DOMAIN s3Puts :
        /\ Map(s3Puts[m], PutBucket) = [k \in 1..Len(s3Puts[m]) |-> k]
        /\ Len(s3Puts[m]) <= Len(bucketList)
        /\ EarlierPutsFailed(m)
        /\ up[m].st = "ok" =>
              /\ s3Puts[m] # <<>>
              /\ s3Puts[m][Len(s3Puts[m])].bucket = up[m].i
              /\ s3Puts[m][Len(s3Puts[m])].res = "ok"
        /\ up[m].st = "err" =>
              /\ Len(s3Puts[m]) = Len(bucketList)
              /\ \A k \in DOMAIN s3Puts[m] : s3Puts[m][k].res = "failed"
        /\ up[m].st = "put" =>
              /\ s3Puts[m] # <<>>
              /\ s3Puts[m][Len(s3Puts[m])].bucket = up[m].i
              /\ s3Puts[m][Len(s3Puts[m])].res = "pending"

\* the default bucket refused the content and the second one took it
C14_Witness ==
    \E m \in DOMAIN s3Puts :
        /\ up[m] = [st |-> "ok", i |-> 2, code |-> "none"]
        /\ Len(s3Puts[m]) = 2
        /\ s3Puts[m][1].bucket = 1 /\ s3Puts[m][1].res = "failed"
        /\ s3Puts[m][2].bucket = 2 /\ s3Puts[m][2].res = "ok"
        /\ \E b \in DOMAIN sent : \E k \in DOMAIN sent[b] :
              sent[b][k].Id = m /\ sent[b][k].bucket = 2

\* C15: with a queue URL that fails the format check the call, once
\* started, has rejected with INVALID_QUEUE_URL, and no ListResources,
\* GetParameter, PutObject, SendMessage or SendMessageBatch command is
\* ever sent; nothing is even formatted.
C15_InvalidUrlRejectsBeforeAnyCall ==
    ~isValidSqsUrl(sqsUrl) =>
        /\ pc \in {"start", "startOne", "rejected"}
        /\ pc = "rejected" => rejectReason = "INVALID_QUEUE_URL"
        /\ ramCalls = 0 /\ ssmCalls = 0 /\ NoPut
        /\ Sends = {}
        /\ parsedEvents = <<>>

\* a call with an invalid URL and an oversized event among several has
\* rejected
C15_Witness ==
    /\ ~isValidSqsUrl(sqsUrl)
    /\ pc = "rejected"
    /\ rejectReason = "INVALID_QUEUE_URL"
    /\ Len(events) >= 2
    /\ Oversized # {}

NoContent(m) == events[m].content = Undefined

\* C16: an event without content makes the call fail with an input error
\* before anything is formatted, batched or sent; stated by its weakest
\* consequence: no SendMessage or SendMessageBatch command carries an
\* entry made from an event without content.
C16_NoEntryWithoutContent ==
    \A b \in DOMAIN sent : \A k \in DOMAIN sent[b] : ~NoContent(sent[b][k].Id)

\* C17: in the summary publishEvents returns, success and failed are each
\* in ascending Id order over the whole call.
C17_SummaryListsAscending ==
    pc = "returned" =>
        /\ Ascending(summary.success)
        /\ Ascending(Map(summary.failed, EntryId))

\* the batch results in the order p of completion
Reordered(p) == [k \in DOMAIN results |-> results[p[k]]]

\* C18: the summary does not depend on the order in which the pipelines
\* complete: the summary returned is the one formatSQSResponse gives for
\* the same batch results in any other order of completion.
C18_SummaryIndependentOfCompletionOrder ==
    pc = "returned" =>
        \A p \in Perms(DOMAIN results) :
            formatSQSResponse(Reordered(p)) = summary

\* C19: when every external call completes, every queued batch is
\* eventually started, also beyond the first MAX_CONCURRENCY, and the run
\* eventually ends: it has resolved or rejected and nothing is queued or
\* running.
C19_EveryBatchRunsAndCallEnds ==
    /\ \A j \in 1..MaxTasks : (j \in Range(queue)) ~> (j \notin Range(queue))
    /\ <>(/\ pc \in {"tasksDone", "tasksRejected"}
          /\ queue = <<>>
          /\ activeCount = 0)

\* a run of more than MAX_CONCURRENCY items ended with every item run,
\* one of them rejected
C19_Witness ==
    /\ pc = "tasksRejected"
    /\ queue = <<>>
    /\ activeCount = 0
    /\ Len(results) >= MAX_CONCURRENCY

\* the buckets of the list at which a put of message m succeeded
AcceptedBy(m) ==
    {bucketList[s3Puts[m][k].bucket] :
        k \in {x \in DOMAIN s3Puts[m] : s3Puts[m][x].res = "ok"}}

\* the keys of a pointer body next to contentS3Location
InlineKeys(body) == DOMAIN body \ {"contentS3Location"}

\* the fixed properties of event m that its content holds with a value
\* that is not falsy
TruthyFixedKeys(m) ==
    {k \in Range(events[m].payloadFixedProperties) \cap DOMAIN events[m].content :
        events[m].content[k] \notin Falsy}

\* C20: for every event over the limit whose upload succeeded, the
\* MessageBody sent is the pointer object: contentS3Location holds the
\* path computed when the event was formatted and the bucketName and
\* region of the bucket that accepted the put; every other key is a fixed
\* property of the event with the value the content has for it, every
\* fixed property the content holds with a truthy value is there, and no
\* other key of the content is.
C20_PointerBodyExact ==
    \A b \in DOMAIN sent : \A k \in DOMAIN sent[b] :
        LET m == sent[b][k].Id
            body == sent[b][k].MessageBody
        IN  (m \in Oversized /\ up[m].st = "ok") =>
                /\ "contentS3Location" \in DOMAIN body
                /\ \E bucket \in AcceptedBy(m) :
                      body.contentS3Location =
                          [path |-> ParsedEvent(m).contentS3Path,
                           bucketName |-> bucket.bucketName,
                           region |-> bucket.region]
                /\ InlineKeys(body) \subseteq
                      Range(events[m].payloadFixedProperties)
                          \cap DOMAIN events[m].content
                /\ TruthyFixedKeys(m) \subseteq InlineKeys(body)
                /\ \A key \in InlineKeys(body) : body[key] = events[m].content[key]

\* C21: the fixed properties kept inline in the pointer body of an
\* offloaded message are exactly the listed keys the content holds with a
\* truthy value: a listed key that is missing, or whose value is 0, null,
\* false or undefined, is left out.
C21_InlineKeysPresentAndTruthy ==
    \A b \in DOMAIN sent : \A k \in DOMAIN sent[b] :
        LET m == sent[b][k].Id
        IN  (m \in Oversized /\ up[m].st = "ok") =>
                InlineKeys(sent[b][k].MessageBody) = TruthyFixedKeys(m)

\* the entries handed to the transport so far
SentEntries == UNION {Range(sent[b]) : b \in DOMAIN sent}

\* C22: for every event whose formatted message is not over the
\* single-message limit, limitExceeded is not set, the message asks for no
\* bucket list and makes no put, and the MessageBody handed to the
\* transport is JSON.stringify(content).
C22_UnderLimitSentAsIs ==
    \A m \in EventIds \ Oversized :
        /\ \A pe \in ParsedEvents : pe.Id = m => ~pe.limitExceeded
        /\ m \in DOMAIN up => up[m] = UpNone
        /\ m \in DOMAIN s3Puts => s3Puts[m] = <<>>
        /\ \A e \in SentEntries :
                e.Id = m => /\ ~e.pointer
                            /\ e.MessageBody = Stringify(events[m].content)

\* publishEvents has returned after sending a message of exactly 262144
\* bytes as it is, next to a message over the limit that was offloaded
C22_Witness ==
    /\ pc = "returned"
    /\ \E m \in EventIds \ Oversized :
        /\ ParsedEventSize(formatSQSEvent(events[m], getSqsNameFromUrl(sqsUrl), m)) = SQS_MESSAGE_LIMIT_SIZE
        /\ \E e \in SentEntries :
                e.Id = m /\ e.MessageBody = Stringify(events[m].content)
    /\ \E m \in Oversized : up[m].st = "ok"

\* the messages of batch b left once those whose offload failed are removed
Remaining(b) == BatchIds(b) \ FailedUploadIds(b)

\* some result handed to formatSQSResponse holds nothing but an S3_ERROR
\* failure for each message of batch b
OnlyS3Errors(b) ==
    \E k \in DOMAIN results :
        /\ results[k].Successful = <<>>
        /\ Len(results[k].Failed) = Cardinality(BatchIds(b))
        /\ Range(results[k].Failed) =
                {[Id |-> m, Code |-> "S3_ERROR"] : m \in BatchIds(b)}

\* C23: a batch pipeline calls SendMessageBatch if and only if a message
\* of the batch remains after those whose offload failed are removed: a
\* pipeline waiting for the transport has handed it the remaining
\* messages, at least one; a pipeline that ended made a call exactly when
\* a message remained, and one that made no call contributed its S3_ERROR
\* failures and nothing else.
C23_SendIffMessageRemains ==
    \A b \in DOMAIN pcB :
        /\ pcB[b] = "sending" => sent[b] # <<>>
        /\ sent[b] # <<>> => Remaining(b) # {} /\ SentIds(b) = Remaining(b)
        /\ pcB[b] = "done" => (sent[b] # <<>> <=> Remaining(b) # {})
        /\ (pcB[b] = "done" /\ sent[b] = <<>>) => OnlyS3Errors(b)

\* publishEvents has returned: one batch lost its only message to a failed
\* offload and made no call, another batch was sent
C23_Witness ==
    /\ pc = "returned"
    /\ \E b1, b2 \in DOMAIN pcB :
        /\ pcB[b1] = "done" /\ pcB[b2] = "done"
        /\ BatchIds(b1) # {} /\ Remaining(b1) = {} /\ sent[b1] = <<>>
        /\ sent[b2] # <<>>
    /\ summary.failedCount >= 1

\* C24: every batch returned by parseEvents holds at least one message,
\* for every list of events.
C24_NoEmptyBatch ==
    pc = "parsed" => \A b \in DOMAIN parsedEvents : parsedEvents[b] # <<>>

\* the batches laid end to end
RECURSIVE Flatten(_)
Flatten(batches) ==
    IF batches = <<>> THEN <<>> ELSE Head(batches) \o Flatten(Tail(batches))

\* pe is the formatted message of the event at index i
FormattedFrom(pe, i) ==
    /\ pe.Id = i
    /\ pe.MessageBody = Stringify(events[i].content)
    /\ pe.base = events[i].base
    /\ pe.body = events[i].body
    /\ pe.stub = events[i].stub
    /\ pe.payloadFixedProperties = events[i].payloadFixedProperties

\* C25: the batches returned by parseEvents, laid end to end, are the
\* input events in their order with Ids 1..n: partitioning drops,
\* duplicates and reorders nothing.
C25_BatchesConcatenateToEvents ==
    pc = "parsed" =>
        LET flat == Flatten(parsedEvents)
        IN  /\ Len(flat) = Len(events)
            /\ \A i \in DOMAIN flat : FormattedFrom(flat[i], i)

\* more than ten events were split into at least three batches, one of
\* them closed by the byte limit before it held ten entries
C25_Witness ==
    /\ pc = "parsed"
    /\ Len(events) > SQS_MAX_BATCH_SIZE
    /\ Len(parsedEvents) >= 3
    /\ \E b \in DOMAIN parsedEvents :
        /\ b < Len(parsedEvents)
        /\ Len(parsedEvents[b]) \in 1..(SQS_MAX_BATCH_SIZE - 1)
    /\ \E b \in DOMAIN parsedEvents : Len(parsedEvents[b]) = SQS_MAX_BATCH_SIZE

\* C26: a message whose own evaluated size is over 262144 is alone in its
\* batch: no earlier and no later message shares the batch with it.
C26_OverLimitMessageAlone ==
    pc = "parsed" =>
        \A b \in DOMAIN parsedEvents : \A k \in DOMAIN parsedEvents[b] :
            EvaluatedSize(parsedEvents[b][k]) > SQS_MESSAGE_LIMIT_SIZE =>
                Len(parsedEvents[b]) = 1

\* a message evaluated over the limit has a batch of its own between a
\* batch of earlier messages and a batch of later ones
C26_Witness ==
    /\ pc = "parsed"
    /\ \E b \in DOMAIN parsedEvents :
        /\ 1 < b /\ b < Len(parsedEvents)
        /\ parsedEvents[b - 1] # <<>>
        /\ Len(parsedEvents[b]) = 1
        /\ EvaluatedSize(parsedEvents[b][1]) > SQS_MESSAGE_LIMIT_SIZE
        /\ EvaluatedSize(parsedEvents[b + 1][1]) < SQS_MESSAGE_LIMIT_SIZE

\* the number of failures of the batch results before the k-th
FailedBefore(k) == SumSeq([j \in 1..(k - 1) |-> Len(results[j].Failed)])

\* the part of summary.failed that comes from the k-th batch result
FailedOf(k) ==
    SubSeq(summary.failed, FailedBefore(k) + 1,
           FailedBefore(k) + Len(results[k].Failed))

\* C27: in the summary the failed entries of each single batch result are
\* in ascending Id order, whatever order the transport returned its
\* failures in and although the batch's S3_ERROR failures were appended
\* after them: the part of summary.failed that comes from a result holds
\* the failures of that result, sorted.
C27_FailedOfOneBatchAscending ==
    pc = "returned" =>
        \A k \in DOMAIN results :
            /\ Range(FailedOf(k)) = Range(results[k].Failed)
            /\ Ascending(Map(FailedOf(k), EntryId))

\* publishEvents has returned and one batch result listed a transport
\* failure before the S3_ERROR failure of a message with a smaller Id
C27_Witness ==
    /\ pc = "returned"
    /\ \E k \in DOMAIN results :
        \E i, j \in DOMAIN results[k].Failed :
            /\ i < j
            /\ results[k].Failed[i].Code = "SQS001"
            /\ results[k].Failed[j].Code = "S3_ERROR"
            /\ results[k].Failed[i].Id > results[k].Failed[j].Id

\* the cumulative evaluated size of batch b
BatchSize(b) == SumSeq(Map(parsedEvents[b], EvaluatedSize))

\* the event list never hits the byte limit: all its messages fit one batch
NeverHitsByteLimit ==
    SumSeq(Map(Flatten(parsedEvents), EvaluatedSize)) <= SQS_MESSAGE_LIMIT_SIZE

\* ceil(n / 10)
BatchesNeeded(n) == (n + SQS_MAX_BATCH_SIZE - 1) \div SQS_MAX_BATCH_SIZE

\* a batch after the first was started only because its first message did
\* not fit the batch before it
Greedy ==
    \A b \in 2..Len(parsedEvents) :
        /\ parsedEvents[b] # <<>>
        /\ \/ BatchSize(b - 1) + EvaluatedSize(parsedEvents[b][1])
                    > SQS_MESSAGE_LIMIT_SIZE
           \/ Len(parsedEvents[b - 1]) = SQS_MAX_BATCH_SIZE

\* C30: parseEvents is greedy: a new batch is started only when adding the
\* message would take the current batch over 262144 bytes or the batch
\* already holds 10 entries; so n events that never hit the byte limit
\* give ceil(n / 10) batches, all of 10 entries except possibly the last.
C30_GreedyPartition ==
    pc = "parsed" =>
        /\ Greedy
        /\ NeverHitsByteLimit =>
            /\ Len(parsedEvents) = BatchesNeeded(Len(events))
            /\ \A b \in 1..(Len(parsedEvents) - 1) :
                    Len(parsedEvents[b]) = SQS_MAX_BATCH_SIZE

\* a String attribute holding the text s
StringAttribute(s) == [DataType |-> "String", StringValue |-> V(s)]

\* C28: every message handed to the transport carries the attribute
\* sqsName with the queue name of the URL (the last segment, without
\* .fifo) and, when the session has a clientCode, the attribute
\* janis-client with that clientCode, whatever attributes the event has
\* of its own.
C28_QueueAndClientAttributes ==
    \A e \in SentEntries :
        LET a == e.MessageAttributes
        IN  /\ "sqsName" \in DOMAIN a
            /\ a.sqsName = StringAttribute(sqsUrl.name)
            /\ HasClientCode =>
                    /\ "janis-client" \in DOMAIN a
                    /\ a["janis-client"] = StringAttribute(session.clientCode)

\* the content path of event m with 'storage' where the client code goes
StoragePath(m) ==
    <<"sqsContent", "storage", JANIS_SERVICE_NAME, sqsUrl.name, "date",
      events[m].rid>>

PointerBodySize(e) == ParsedEvent(e.Id).stub + bucketList[e.bucket].len

\* C31: for every offloaded message the size parseEvents counted toward
\* the batch byte budget, the pointer body without bucket data plus the
\* reserved 90, is at least the serialized size of the pointer body handed
\* to the transport, whatever bucket of the resolved list took the content.
C31_ReservedCoversBucketData ==
    \A e \in SentEntries :
        e.pointer => EvaluatedSize(ParsedEvent(e.Id)) >= PointerBodySize(e)

\* C32: size evaluation leaves the MessageBody of the entry as formatted:
\* every parsed event, over the limit or not, holds JSON.stringify(content)
\* of its event, and every put of an offloaded message has that full
\* serialized content as Body, never the pointer body.
C32_FullContentStored ==
    /\ \A pe \in ParsedEvents :
            pe.MessageBody = Stringify(events[pe.Id].content)
    /\ \A m \in DOMAIN s3Puts : \A k \in DOMAIN s3Puts[m] :
            /\ s3Puts[m][k].Body = Stringify(events[m].content)
            /\ "contentS3Location" \in DOMAIN s3Puts[m][k].Body =>
                    "contentS3Location" \in DOMAIN events[m].content

\* publishEvents has offloaded a message flagged by handleEventSizeLimit:
\* the put that succeeded holds the full content and the entry handed to
\* the transport holds the pointer body, a different document
C32_Witness ==
    /\ pc \in {"running", "returned"}
    /\ \E m \in Oversized :
        /\ ParsedEvent(m).limitExceeded
        /\ \E k \in DOMAIN s3Puts[m] :
            /\ s3Puts[m][k].res = "ok"
            /\ s3Puts[m][k].Body = Stringify(events[m].content)
            /\ \E e \in SentEntries :
                    e.Id = m /\ e.pointer /\ e.MessageBody # s3Puts[m][k].Body

\* the path that document d gives as contentS3Location.path
LocationPath(d) == d.contentS3Location.path

\* C33: for an offloaded message one path, computed when the message is
\* formatted, is used in three places: the pointer body measured for the
\* size estimate, the Key of every put of its content, and
\* contentS3Location.path of the body handed to the transport.
C33_OnePathThreeUses ==
    \A e \in SentEntries :
        e.pointer =>
            LET pe == ParsedEvent(e.Id)
            IN  /\ LocationPath(e.MessageBody) = pe.contentS3Path
                /\ \A k \in DOMAIN s3Puts[e.Id] :
                        s3Puts[e.Id][k].Key = pe.contentS3Path
                /\ pe.contentFixed # Undefined =>
                        LocationPath(pe.contentFixed) = pe.contentS3Path

\* the upload of message m has finished: a bucket took the content or
\* every bucket refused it, and no put is waiting for its answer
UploadFinished(m) ==
    /\ up[m].st \in {"ok", "err"}
    /\ \A k \in DOMAIN s3Puts[m] : s3Puts[m][k].res # "pending"

\* C34: a batch pipeline issues its SendMessageBatch only after the upload
\* of every message of the batch that is over the limit has finished: a
\* batch that is being sent or was sent has no upload in flight.
C34_SendAfterUploads ==
    \A b \in DOMAIN pcB :
        (pcB[b] = "sending" \/ sent[b] # <<>>) =>
            \A pe \in Range(parsedEvents[b]) :
                pe.limitExceeded => UploadFinished(pe.Id)

\* a batch of two offloaded messages is being sent: the upload of one
\* succeeded at the second bucket, the other lost every bucket
C34_Witness ==
    \E b \in DOMAIN pcB :
        /\ pcB[b] = "sending"
        /\ \E m1, m2 \in BatchIds(b) :
            /\ m1 # m2
            /\ up[m1].st = "ok" /\ Len(s3Puts[m1]) = 2
            /\ up[m2].st = "err" /\ Len(s3Puts[m2]) = 2

\* put is a successful put of the full content of event m at the bucket
\* and path that location names
StoredAt(put, m, location) ==
    /\ put.res = "ok"
    /\ put.Body = Stringify(events[m].content)
    /\ put.Key = location.path
    /\ bucketList[put.bucket].bucketName = location.bucketName
    /\ bucketList[put.bucket].region = location.region

\* C35: no dangling pointer: every message handed to the transport by
\* publishEvents or publishEvent with a pointer body names in
\* contentS3Location a bucket and a path at which a put of the full
\* content of that message has succeeded in the call.
C35_NoDanglingPointer ==
    \A e \in SentEntries :
        e.pointer =>
            /\ "contentS3Location" \in DOMAIN e.MessageBody
            /\ \E k \in DOMAIN s3Puts[e.Id] :
                    StoredAt(s3Puts[e.Id][k], e.Id, e.MessageBody.contentS3Location)

\* the call is a publishEvent call past its formatting: one formatted
\* event and no batch pipeline
OneEventCall == parsedEvents # <<>> /\ pcB = <<>>

\* C36: publishEvent of an event over the limit whose upload failed on
\* every bucket of the list issues no SendMessage and does not return a
\* messageId: nothing is handed to the transport, in particular no entry
\* without a MessageBody.
C36_NoSendAfterFailedUpload ==
    (OneEventCall /\ 1 \in Oversized /\ up[1].st = "err") =>
        /\ sent[1] = <<>>
        /\ pc # "returnedOne"

\* C37: within one publishEvents call two different messages over the
\* limit are never put under the same key of the same bucket, so the
\* content of one is never overwritten by the content of the other.
C37_DistinctKeysPerMessage ==
    \A m1, m2 \in DOMAIN s3Puts :
        m1 # m2 =>
            \A k1 \in DOMAIN s3Puts[m1] : \A k2 \in DOMAIN s3Puts[m2] :
                ~(/\ s3Puts[m1][k1].bucket = s3Puts[m2][k2].bucket
                  /\ s3Puts[m1][k1].Key = s3Puts[m2][k2].Key)

ResolutionErrors == {"RAM_ERROR", "SSM_ERROR"}

\* C38: a failed resolution of the bucket list is not cached: once a call
\* has rejected with the resolution error no entry for the list is left,
\* and in the call that follows a message over the limit gets the list
\* only from a resolution made during that call, GetParameter after an
\* SSM failure, ListResources and GetParameter after a RAM failure.
C38_FailedResolutionRetried ==
    /\ (Quiescent /\ pc = "rejected" /\ rejectReason \in ResolutionErrors) =>
            valueCache = "empty"
    /\ (lastError \in ResolutionErrors /\ PastResolution # {}) =>
            /\ ssmCalls >= 1
            /\ lastError = "RAM_ERROR" => ramCalls >= 1

\* the call after one that rejected with RAM_ERROR has resolved the list
\* itself, offloaded its message and ended normally
C38_Witness ==
    /\ lastError = "RAM_ERROR"
    /\ pc \in {"returned", "returnedOne"}
    /\ ramCalls = 1 /\ ssmCalls = 1
    /\ \E m \in DOMAIN up : up[m].st = "ok"
    /\ \E e \in SentEntries : e.pointer

\* C39: in every summary publishEvents returns successCount is the length
\* of the success list and failedCount the length of the failed list.
C39_CountsMatchLists ==
    pc = "returned" =>
        /\ summary.successCount = Len(summary.success)
        /\ summary.failedCount = Len(summary.failed)

\* a call returned a summary with a sent message and one whose upload
\* failed in every bucket, folded from more than one result
C39_Witness ==
    /\ pc = "returned"
    /\ Len(results) >= 2
    /\ summary.successCount >= 1
    /\ \E i \in DOMAIN summary.failed : summary.failed[i].Code = "S3_ERROR"

====
